---- MODULE Spec2Model ----
(***************************************************************************)
(* Country comparator (server/countryRouter.ts): the in-memory TTL cache,  *)
(* fetchWithRetry, the holiday and zone-status providers and the           *)
(* comparison engine compareCountries.                                     *)
(*                                                                         *)
(* null is NULL, a ZoneStatus is [kind |-> "zone", zone, utc_offset, dst], *)
(* a Holiday[] a provider returns or caches is [kind |-> "list", items],   *)
(* and the engine works on the sequences of Holiday records.  A JavaScript *)
(* Map is a sequence of <<key, value>> pairs with distinct keys, in        *)
(* insertion order, which is the order Map.entries() iterates in.          *)
(***************************************************************************)
EXTENDS Integers, Sequences, FiniteSets, TLC

VARIABLES
    cache,      \* const cache = new Map<string, CacheEntry<any>>()
    now,        \* the reading of Date.now(), in milliseconds
    calls,      \* the provider calls (getHolidays / getZoneStatus) and their position
    cmp,        \* one compareCountries call: its arguments, awaited values and result
    home        \* the Home page: its useState values and its compare query

vars == <<cache, now, calls, cmp, home>>

NULL == [kind |-> "null"]

(***************************************************************************)
(* Bounds of the model.                                                    *)
(***************************************************************************)
\* Holidays the two holiday lookups of one comparison return, in total.
MaxHolidays == 4

\* Provider calls (getHolidays, getZoneStatus) made in one run.
MaxCalls == 2

(***************************************************************************)
(* Data drawn for the inputs.                                              *)
(***************************************************************************)
Years == {2025}
Offsets == {"+00:00", "-05:00"}

\* interface Holiday { date; name; localName?; countryCode? }
\* The holiday records the upstream can return: two of them fall on the same date.
Holiday ==
    {[date |-> "2025-01-01", name |-> "New Year's Day",
      localName |-> "Neujahr", countryCode |-> "DE"],
     [date |-> "2025-01-01", name |-> "Anio Nuevo",
      localName |-> "Ano Nuevo", countryCode |-> "CO"],
     [date |-> "2025-07-20", name |-> "Independence Day",
      localName |-> "Dia de la Independencia", countryCode |-> "CO"],
     [date |-> "2025-12-25", name |-> "Christmas Day",
      localName |-> "Weihnachten", countryCode |-> "DE"]}

\* interface ZoneStatus { zone; utc_offset; dst }
MkZoneStatus(zone, offset, dst) ==
    [kind |-> "zone", zone |-> zone, utc_offset |-> offset, dst |-> dst]

\* const COUNTRY_TIMEZONES: the rows the model keeps.
COUNTRY_TIMEZONES ==
    [CO |-> <<"America/Bogota">>,
     CI |-> <<"Africa/Abidjan">>,
     DE |-> <<"Europe/Berlin", "Europe/Busingen">>,
     US |-> <<"America/New_York", "America/Detroit",
              "America/Kentucky/Louisville", "America/Kentucky/Monticello",
              "America/Indiana/Indianapolis", "America/Indiana/Vincennes",
              "America/Indiana/Winamac", "America/Indiana/Marengo",
              "America/Indiana/Petersburg", "America/Indiana/Vevay",
              "America/Chicago", "America/Indiana/Tell_City",
              "America/Indiana/Knox", "America/Menominee",
              "America/North_Dakota/Center", "America/North_Dakota/New_Salem",
              "America/North_Dakota/Beulah", "America/Denver", "America/Boise",
              "America/Phoenix", "America/Los_Angeles", "America/Anchorage",
              "America/Juneau", "America/Sitka", "America/Metlakatla",
              "America/Yakutat", "America/Nome", "America/Adak",
              "Pacific/Honolulu">>]

\* Country codes passed to the helpers; "XX" has no row in COUNTRY_TIMEZONES.
Countries == {"CO", "DE", "XX"}

\* Faulty variant: a default zone for a code without a row.
getTimezonesDefault(countryCode) ==
    IF countryCode \in DOMAIN COUNTRY_TIMEZONES
    THEN COUNTRY_TIMEZONES[countryCode]
    ELSE <<"Etc/UTC">>

\* getTimezones: COUNTRY_TIMEZONES[countryCode] || []
getTimezones(countryCode) ==
    IF countryCode \in DOMAIN COUNTRY_TIMEZONES
    THEN COUNTRY_TIMEZONES[countryCode]
    ELSE <<>>

(***************************************************************************)
(* JavaScript Map, as an insertion-ordered sequence of <<key, value>>.     *)
(***************************************************************************)
MapHas(m, k) == \E i \in 1..Len(m) : m[i][1] = k

MapGet(m, k) == m[CHOOSE i \in 1..Len(m) : m[i][1] = k][2]

\* Map.prototype.set: an existing key keeps its place and takes the new value.
MapSet(m, k, v) ==
    IF MapHas(m, k)
    THEN [i \in 1..Len(m) |-> IF m[i][1] = k THEN <<k, v>> ELSE m[i]]
    ELSE Append(m, <<k, v>>)

\* new Map(entries): the entries are set one after the other.
RECURSIVE MapFromEntries(_)
MapFromEntries(entries) ==
    IF entries = <<>>
    THEN <<>>
    ELSE LET last == entries[Len(entries)]
         IN  MapSet(MapFromEntries(SubSeq(entries, 1, Len(entries) - 1)),
                    last[1], last[2])

\* Faulty variant: the list itself, one entry per holiday, duplicates of a date kept.
HolidaysMapNoDedup(holidays) ==
    [i \in 1..Len(holidays) |-> <<holidays[i].date, holidays[i]>>]

\* Faulty variant: the first holiday of a date is kept.
HolidaysMapFirstWins(holidays) ==
    LET firsts == {i \in 1..Len(holidays) :
                      \A j \in 1..(i - 1) : holidays[j].date # holidays[i].date}
        kept   == SelectSeq([i \in 1..Len(holidays) |-> <<i, holidays[i]>>],
                            LAMBDA e : e[1] \in firsts)
    IN  [i \in 1..Len(kept) |-> <<kept[i][2].date, kept[i][2]>>]

\* new Map(holidays.map(h => [h.date, h]))
HolidaysMap(holidays) ==
    MapFromEntries([i \in 1..Len(holidays) |-> <<holidays[i].date, holidays[i]>>])

(***************************************************************************)
(* compareCountries: the holiday partition.                                *)
(***************************************************************************)
CommonOf(mapA, mapB) ==
    LET both == SelectSeq(mapA, LAMBDA e : MapHas(mapB, e[1]))
    IN  [i \in 1..Len(both) |->
            [date  |-> both[i][1],
             nameA |-> both[i][2].name,
             nameB |-> MapGet(mapB, both[i][1]).name]]

\* Faulty variant: the test holidaysBMap.has(date) left out.
OnlyAOfNoFilter(mapA, mapB) ==
    [i \in 1..Len(mapA) |-> mapA[i][2]]

OnlyAOf(mapA, mapB) ==
    LET rest == SelectSeq(mapA, LAMBDA e : ~MapHas(mapB, e[1]))
    IN  [i \in 1..Len(rest) |-> rest[i][2]]

\* Faulty variant: the test !holidaysAMap.has(date) left out.
OnlyBOfNoFilter(mapA, mapB) ==
    [i \in 1..Len(mapB) |-> mapB[i][2]]

OnlyBOf(mapA, mapB) ==
    LET rest == SelectSeq(mapB, LAMBDA e : ~MapHas(mapA, e[1]))
    IN  [i \in 1..Len(rest) |-> rest[i][2]]

(***************************************************************************)
(* compareCountries: the offset overlap.                                   *)
(***************************************************************************)
\* Faulty variant: the resolved statuses in reverse order.
ValidStatusesReversed(statuses) ==
    LET valid == SelectSeq(statuses, LAMBDA s : s # NULL)
    IN  [i \in 1..Len(valid) |-> valid[Len(valid) + 1 - i]]

\* statuses.filter(s => s !== null)
ValidStatuses(statuses) == SelectSeq(statuses, LAMBDA s : s # NULL)

\* Faulty variant: the zones already grouped under the offset are dropped.
RECURSIVE OffsetMapOverwrite(_)
OffsetMapOverwrite(valid) ==
    IF valid = <<>>
    THEN <<>>
    ELSE LET status == valid[Len(valid)]
         IN  MapSet(OffsetMapOverwrite(SubSeq(valid, 1, Len(valid) - 1)),
                    status.utc_offset, <<status.zone>>)

\* Faulty variant: one group per status, an offset seen before gets a second group.
OffsetMapPerStatus(valid) ==
    [i \in 1..Len(valid) |-> <<valid[i].utc_offset, <<valid[i].zone>>>>]

\* for (const status of valid) { zones = map.get(offset) || []; zones.push(zone); map.set(offset, zones) }
RECURSIVE OffsetMap(_)
OffsetMap(valid) ==
    IF valid = <<>>
    THEN <<>>
    ELSE LET m      == OffsetMap(SubSeq(valid, 1, Len(valid) - 1))
             status == valid[Len(valid)]
             zones  == IF MapHas(m, status.utc_offset)
                       THEN MapGet(m, status.utc_offset)
                       ELSE <<>>
         IN  MapSet(m, status.utc_offset, Append(zones, status.zone))

\* Faulty variant: the test offsetMapB.has(offset) left out.
OverlapsOfNoFilter(offsetMapA, offsetMapB) ==
    [i \in 1..Len(offsetMapA) |->
        [offset |-> offsetMapA[i][1],
         zonesA |-> offsetMapA[i][2],
         zonesB |-> IF MapHas(offsetMapB, offsetMapA[i][1])
                    THEN MapGet(offsetMapB, offsetMapA[i][1])
                    ELSE <<>>]]

OverlapsOf(offsetMapA, offsetMapB) ==
    LET both == SelectSeq(offsetMapA, LAMBDA e : MapHas(offsetMapB, e[1]))
    IN  [i \in 1..Len(both) |->
            [offset |-> both[i][1],
             zonesA |-> both[i][2],
             zonesB |-> MapGet(offsetMapB, both[i][1])]]

\* Faulty variant: one overlap is not reported.
HasOverlapMut(overlaps) == Len(overlaps) > 1

\* hasOverlap: overlaps.length > 0
HasOverlap(overlaps) == Len(overlaps) > 0

\* The ComparisonResult built from the awaited holiday lists and statuses.
ComparisonResult(countryA, countryB, year, holidaysA, holidaysB, statusesA, statusesB) ==
    LET holidaysAMap   == HolidaysMap(holidaysA)
        holidaysBMap   == HolidaysMap(holidaysB)
        validStatusesA == ValidStatuses(statusesA)
        validStatusesB == ValidStatuses(statusesB)
        overlaps       == OverlapsOf(OffsetMap(validStatusesA), OffsetMap(validStatusesB))
    IN  [kind     |-> "result",
         inputs   |-> [countryA |-> countryA, countryB |-> countryB, year |-> year],
         holidays |-> [common |-> CommonOf(holidaysAMap, holidaysBMap),
                       onlyA  |-> OnlyAOf(holidaysAMap, holidaysBMap),
                       onlyB  |-> OnlyBOf(holidaysAMap, holidaysBMap)],
         timezones |-> [A |-> validStatusesA,
                        B |-> validStatusesB,
                        commonOffsetNow |-> [hasOverlap |-> HasOverlap(overlaps),
                                             overlaps   |-> overlaps]]]

(***************************************************************************)
(* The TTL cache.                                                          *)
(***************************************************************************)
\* const CACHE_TTL = { HOLIDAYS: 24 h, TIMEZONES: 1 h }, in milliseconds
CACHE_TTL ==
    [HOLIDAYS  |-> 24 * 60 * 60 * 1000,
     TIMEZONES |-> 60 * 60 * 1000]

RECURSIVE Join(_, _)
Join(args, sep) ==
    IF args = <<>> THEN ""
    ELSE IF Len(args) = 1 THEN args[1]
    ELSE args[1] \o sep \o Join(Tail(args), sep)

\* getCacheKey: `${prefix}:${args.join(":")}`
getCacheKey(prefix, args) == prefix \o ":" \o Join(args, ":")

\* Map.prototype.delete
\* Faulty variant: every entry is removed.
MapDeleteAll(m, k) == <<>>

MapDelete(m, k) == SelectSeq(m, LAMBDA e : e[1] # k)

\* Faulty variant: a hit renews the timestamp of the entry.
getFromCacheSliding(cacheMap, key, ttl, t) ==
    IF ~MapHas(cacheMap, key)
    THEN [value |-> NULL, cache |-> cacheMap]
    ELSE IF t - MapGet(cacheMap, key).timestamp > ttl
    THEN [value |-> NULL, cache |-> MapDelete(cacheMap, key)]
    ELSE [value |-> MapGet(cacheMap, key).data,
          cache |-> MapSet(cacheMap, key,
                           [data |-> MapGet(cacheMap, key).data, timestamp |-> t])]

\* Faulty variant: an entry exactly ttl old is already treated as expired.
getFromCacheStrict(cacheMap, key, ttl, t) ==
    IF ~MapHas(cacheMap, key)
    THEN [value |-> NULL, cache |-> cacheMap]
    ELSE IF t - MapGet(cacheMap, key).timestamp >= ttl
    THEN [value |-> NULL, cache |-> MapDelete(cacheMap, key)]
    ELSE [value |-> MapGet(cacheMap, key).data, cache |-> cacheMap]

\* getFromCache at Date.now() = t: the value returned and the cache it leaves.
getFromCache(cacheMap, key, ttl, t) ==
    IF ~MapHas(cacheMap, key)
    THEN [value |-> NULL, cache |-> cacheMap]
    ELSE IF t - MapGet(cacheMap, key).timestamp > ttl
    THEN [value |-> NULL, cache |-> MapDelete(cacheMap, key)]
    ELSE [value |-> MapGet(cacheMap, key).data, cache |-> cacheMap]

\* Faulty variant: an entry already under the key is kept.
setCacheKeepFirst(cacheMap, key, data, t) ==
    IF MapHas(cacheMap, key)
    THEN cacheMap
    ELSE MapSet(cacheMap, key, [data |-> data, timestamp |-> t])

\* setCache at Date.now() = t
setCache(cacheMap, key, data, t) ==
    MapSet(cacheMap, key, [data |-> data, timestamp |-> t])

\* if (cached): an array (also an empty one) and an object are truthy, null is not.
Truthy(v) == v # NULL

(***************************************************************************)
(* The upstream services and the runtime's time zone database.             *)
(***************************************************************************)
\* What makes an attempt of fetchWithRetry fail: fetch() rejecting, a response
\* that is not ok (a 4xx or a 5xx status), response.json() rejecting.
ErrorCauses == {"transport", "status4xx", "status5xx", "json"}

MkError(cause) == [kind |-> "error", cause |-> cause]

\* A Holiday[] value.
MkList(items) == [kind |-> "list", items |-> items]

\* A record of the Nager.Date reply: it carries more fields than Holiday keeps.
RawHoliday(h) ==
    [date |-> h.date, name |-> h.name, localName |-> h.localName,
     countryCode |-> h.countryCode, global |-> TRUE]

\* The decoded bodies the holiday service answers with.
HolidayBodies ==
    {[kind |-> "array", items |-> <<>>],
     [kind |-> "array",
      items |-> <<RawHoliday([date |-> "2025-01-01", name |-> "Anio Nuevo",
                              localName |-> "Ano Nuevo", countryCode |-> "CO"])>>],
     [kind |-> "object", status |-> 404]}

\* The zones asked for; "Mars/Phobos" is no IANA zone.
Zones == {"America/Bogota", "Africa/Abidjan", "Mars/Phobos"}

\* The offset of a zone now, as the parts of Intl's longOffset name:
\* "GMT-05:00" is <<"GMT", "-05:00">>, and offset zero is named "GMT".
LongOffsetName(zone) ==
    IF zone = "America/Bogota" THEN <<"GMT", "-05:00">>
    ELSE <<"GMT">>

\* new Intl.DateTimeFormat(..., { timeZone: zone }) throws a RangeError for an
\* unknown zone.
KnownZone(zone) == zone \in {"America/Bogota", "Africa/Abidjan"}

\* offsetPart.value.replace("GMT", "")
ReplaceGMT(parts) == IF Len(parts) > 1 THEN parts[2] ELSE ""

\* The decoded bodies WorldTimeAPI answers with for a zone: the zone's data,
\* or an object without the fields.
ZoneBodies(zone) ==
    {[kind |-> "object", timezone |-> zone,
      utc_offset |-> IF zone = "America/Bogota" THEN "-05:00" ELSE "+00:00",
      dst |-> FALSE],
     [kind |-> "object", error |-> "unknown location"]}

\* The bodies the service a call fetches from can answer with.
BodiesFor(call) ==
    IF call.op = "getHolidays" THEN HolidayBodies ELSE ZoneBodies(call.arg)

UNDEFINED == "undefined"

\* The environment's credential for the secondary holiday source
\* (CALENDARIFIC_KEY in .env), here configured.
CALENDARIFIC_KEY == "configured"
Field(body, f) == IF f \in DOMAIN body THEN body[f] ELSE UNDEFINED

(***************************************************************************)
(* fetchWithRetry, as the part of a provider call that runs it.            *)
(***************************************************************************)
\* maxRetries = 2
maxRetries == 2

\* Faulty variant: one retry only.
CanRetryOnce(i) == i < 1

\* Faulty variant: one retry too many.
CanRetryThrice(i) == i < maxRetries + 1

\* if (i < maxRetries)
CanRetry(i) == i < maxRetries

\* Faulty variant: the same wait before every retry.
BackoffConstant(i) == 1000

\* setTimeout(resolve, 1000 * (i + 1))
Backoff(i) == 1000 * (i + 1)

\* Faulty variant: the first error is kept.
NextLastErrorFirst(lastError, error) == IF lastError = NULL THEN error ELSE lastError

\* lastError = error as Error
NextLastError(lastError, error) == error

IdleCall == [pc |-> "idle"]

\* A provider call that missed the cache: fetchWithRetry starts, i = 0, and
\* issues its first fetch(url).  `attempts` counts the requests sent to the
\* call's upstream service (Nager.Date or WorldTimeAPI) and `secondary` those
\* sent to any other holiday source: the provider has no statement that sends
\* one, so no step changes it.
StartFetch(op, arg, year) ==
    [pc |-> "fetching", op |-> op, arg |-> arg, year |-> year,
     i |-> 0, lastError |-> NULL, wakeAt |-> 0,
     attempts |-> 1, delays |-> <<>>, log |-> <<>>, secondary |-> 0,
     fetched |-> NULL, result |-> NULL, hit |-> FALSE, age |-> -1, storedAt |-> -1]

\* A provider call served from the cache, by an entry of the given age.
ServedFromCache(op, arg, year, cached, age) ==
    [pc |-> "done", op |-> op, arg |-> arg, year |-> year,
     i |-> 0, lastError |-> NULL, wakeAt |-> 0,
     attempts |-> 0, delays |-> <<>>, log |-> <<>>, secondary |-> 0,
     fetched |-> NULL, result |-> cached, hit |-> TRUE, age |-> age, storedAt |-> -1]

KeyOf(call) ==
    IF call.op = "getHolidays"
    THEN getCacheKey("holidays", <<call.arg, ToString(call.year)>>)
    ELSE getCacheKey("zone", <<call.arg>>)

CallIds == 1..MaxCalls

\* Calls are started in the order of their slots.
CanStart(c) ==
    /\ calls[c].pc = "idle"
    /\ IF c = 1 THEN TRUE ELSE calls[c - 1].pc # "idle"

(***************************************************************************)
(* getHolidays                                                             *)
(***************************************************************************)
\* data.map(h => ({ date, name, localName, countryCode }))
NormalizeHolidays(items) ==
    [i \in 1..Len(items) |->
        [date |-> items[i].date, name |-> items[i].name,
         localName |-> items[i].localName, countryCode |-> items[i].countryCode]]

\* Faulty variant: the holiday lookup made with the zone-status TTL.
HolidaysTtlOfZones == CACHE_TTL.TIMEZONES

\* getFromCache<Holiday[]>(cacheKey, CACHE_TTL.HOLIDAYS)
HolidaysTtl == CACHE_TTL.HOLIDAYS

\* getHolidays up to its first await: the cache lookup and, on a miss, the
\* first fetch of fetchWithRetry.
InvokeGetHolidays(cacheMap, countryCode, year, t) ==
    LET cacheKey == getCacheKey("holidays", <<countryCode, ToString(year)>>)
        got      == getFromCache(cacheMap, cacheKey, HolidaysTtl, t)
    IN  [cache |-> got.cache,
         call  |-> IF Truthy(got.value)
                   THEN ServedFromCache("getHolidays", countryCode, year, got.value,
                                        t - MapGet(cacheMap, cacheKey).timestamp)
                   ELSE StartFetch("getHolidays", countryCode, year)]

\* A call of getHolidays made on its own, in slot c.
CallGetHolidays(c, countryCode, year) ==
    /\ CanStart(c)
    /\ LET invoked == InvokeGetHolidays(cache, countryCode, year, now)
       IN  /\ cache' = invoked.cache
           /\ calls' = [calls EXCEPT ![c] = invoked.call]
    /\ UNCHANGED <<now, cmp, home>>

\* Faulty variant: data.map outside the try block, its TypeError thrown on to
\* the caller.
HolidaysReturnedUncaught(call, data, t) ==
    IF data.kind = "array"
    THEN [call EXCEPT !.pc = "done",
                      !.fetched = [kind |-> "ok", body |-> data],
                      !.result = MkList(NormalizeHolidays(data.items)),
                      !.storedAt = t]
    ELSE [call EXCEPT !.pc = "done",
                      !.fetched = [kind |-> "ok", body |-> data],
                      !.result = [kind |-> "thrown", error |-> "TypeError"]]

\* getHolidays after fetchWithRetry returned data.
HolidaysReturned(call, data, t) ==
    IF data.kind = "array"
    THEN [call EXCEPT !.pc = "done",
                      !.fetched = [kind |-> "ok", body |-> data],
                      !.result = MkList(NormalizeHolidays(data.items)),
                      !.storedAt = t]
    ELSE \* data.map is not a function: caught, return []
         [call EXCEPT !.pc = "done",
                      !.fetched = [kind |-> "ok", body |-> data],
                      !.result = MkList(<<>>)]

\* Faulty variant: the error of fetchWithRetry is thrown on to the caller.
HolidaysFailedRethrow(call, error) ==
    [call EXCEPT !.pc = "done",
                 !.fetched = [kind |-> "thrown", error |-> error],
                 !.result = [kind |-> "thrown", error |-> error]]

\* Faulty variant: the empty list of a failure is cached.
HolidaysFailedCached(call, error) ==
    [call EXCEPT !.pc = "done",
                 !.fetched = [kind |-> "thrown", error |-> error],
                 !.result = MkList(<<>>),
                 !.storedAt = call.wakeAt]

\* getHolidays after fetchWithRetry threw: return []
HolidaysFailed(call, error) ==
    [call EXCEPT !.pc = "done",
                 !.fetched = [kind |-> "thrown", error |-> error],
                 !.result = MkList(<<>>)]

(***************************************************************************)
(* getZoneStatus                                                           *)
(***************************************************************************)
\* getFromCache<ZoneStatus>(cacheKey, CACHE_TTL.TIMEZONES)
ZoneTtl == CACHE_TTL.TIMEZONES

\* getZoneStatus up to its first await: the cache lookup and, on a miss, the
\* first fetch of fetchWithRetry.
InvokeGetZoneStatus(cacheMap, zone, t) ==
    LET cacheKey == getCacheKey("zone", <<zone>>)
        got      == getFromCache(cacheMap, cacheKey, ZoneTtl, t)
    IN  [cache |-> got.cache,
         call  |-> IF Truthy(got.value)
                   THEN ServedFromCache("getZoneStatus", zone, 0, got.value,
                                        t - MapGet(cacheMap, cacheKey).timestamp)
                   ELSE StartFetch("getZoneStatus", zone, 0)]

\* A call of getZoneStatus made on its own, in slot c.
CallGetZoneStatus(c, zone) ==
    /\ CanStart(c)
    /\ LET invoked == InvokeGetZoneStatus(cache, zone, now)
       IN  /\ cache' = invoked.cache
           /\ calls' = [calls EXCEPT ![c] = invoked.call]
    /\ UNCHANGED <<now, cmp, home>>

\* getZoneStatus after fetchWithRetry returned data.
ZoneReturned(call, data, t) ==
    [call EXCEPT !.pc = "done",
                 !.fetched = [kind |-> "ok", body |-> data],
                 !.result = MkZoneStatus(Field(data, "timezone"),
                                         Field(data, "utc_offset"),
                                         IF "dst" \in DOMAIN data THEN data.dst ELSE FALSE),
                 !.storedAt = t]

\* Faulty variant: no local computation, absent as soon as the live service
\* has failed.
ZoneFailedNoLocal(call, error, t) ==
    [call EXCEPT !.pc = "done",
                 !.fetched = [kind |-> "thrown", error |-> error],
                 !.result = NULL]

\* Faulty variant: the locally computed status is returned but not cached.
ZoneFailedNoStore(call, error, t) ==
    IF KnownZone(call.arg)
    THEN [call EXCEPT !.pc = "done",
                      !.fetched = [kind |-> "thrown", error |-> error],
                      !.result = MkZoneStatus(call.arg,
                                              ReplaceGMT(LongOffsetName(call.arg)),
                                              FALSE)]
    ELSE [call EXCEPT !.pc = "done",
                      !.fetched = [kind |-> "thrown", error |-> error],
                      !.result = NULL]

\* getZoneStatus after fetchWithRetry threw: the local computation.
ZoneFailed(call, error, t) ==
    IF KnownZone(call.arg)
    THEN [call EXCEPT !.pc = "done",
                      !.fetched = [kind |-> "thrown", error |-> error],
                      !.result = MkZoneStatus(call.arg,
                                              ReplaceGMT(LongOffsetName(call.arg)),
                                              FALSE),
                      !.storedAt = t]
    ELSE [call EXCEPT !.pc = "done",
                      !.fetched = [kind |-> "thrown", error |-> error],
                      !.result = NULL]

(***************************************************************************)
(* The steps of a provider call inside fetchWithRetry.                     *)
(***************************************************************************)
\* The attempt's fetch succeeds and its body decodes: fetchWithRetry returns
\* it and the provider finishes.
RespondOk(c, body) ==
    /\ calls[c].pc = "fetching"
    /\ body \in BodiesFor(calls[c])
    /\ LET logged == [calls[c] EXCEPT !.log = Append(@, [kind |-> "ok", body |-> body])]
           after  == IF logged.op = "getHolidays"
                     THEN HolidaysReturned(logged, body, now)
                     ELSE ZoneReturned(logged, body, now)
       IN  /\ calls' = [calls EXCEPT ![c] = after]
           /\ cache' = IF after.storedAt >= 0
                       THEN setCache(cache, KeyOf(after), after.result, now)
                       ELSE cache
    /\ UNCHANGED <<now, cmp, home>>

\* The attempt fails: the catch block keeps the error and either waits, or
\* the loop ends, fetchWithRetry throws and the provider's catch block runs.
RespondError(c, error) ==
    /\ calls[c].pc = "fetching"
    /\ LET call   == calls[c]
           logged == [call EXCEPT !.log = Append(@, error),
                                  !.lastError = NextLastError(call.lastError, error)]
       IN  IF CanRetry(call.i)
           THEN /\ calls' = [calls EXCEPT ![c] =
                               [logged EXCEPT !.pc = "sleeping",
                                              !.wakeAt = now + Backoff(call.i),
                                              !.delays = Append(@, Backoff(call.i))]]
                /\ cache' = cache
           ELSE LET after == IF call.op = "getHolidays"
                             THEN HolidaysFailed(logged, logged.lastError)
                             ELSE ZoneFailed(logged, logged.lastError, now)
                IN  /\ calls' = [calls EXCEPT ![c] = after]
                    /\ cache' = IF after.storedAt >= 0
                                THEN setCache(cache, KeyOf(after), after.result, now)
                                ELSE cache
    /\ UNCHANGED <<now, cmp, home>>

\* The timer of the wait fires: the loop goes on with the next fetch(url).
Wake(c) ==
    /\ calls[c].pc = "sleeping"
    /\ now >= calls[c].wakeAt
    /\ calls' = [calls EXCEPT ![c] =
                   [@ EXCEPT !.pc = "fetching", !.i = @ + 1, !.attempts = @ + 1]]
    /\ UNCHANGED <<cache, now, cmp, home>>

\* Time passes: Date.now() reads a later instant.
Tick(instants) ==
    /\ \E t \in instants : t > now /\ now' = t
    /\ UNCHANGED <<cache, calls, cmp, home>>

(***************************************************************************)
(* The specifications of the providers.                                    *)
(***************************************************************************)
\* The Home page after its first render: no country selected, the current
\* year, no result, the compare query disabled and nothing fetched.
InitialHome ==
    [countryA |-> "", countryB |-> "", year |-> 2025, result |-> NULL,
     shouldCompare |-> FALSE, toast |-> "", data |-> {}, error |-> {}, fetching |-> {}]

IdleCmp == [pc |-> "idle"]

InitCache == cache = <<>>
InitCalls == calls = [c \in CallIds |-> IdleCall]

Init ==
    /\ InitCache
    /\ InitCalls
    /\ now = 0
    /\ home = InitialHome
    /\ cmp = IdleCmp

\* The calls `ids` are made, for the countries and zones given, the upstream
\* fails in the ways `causes`, and the clock is read at the `instants`.
Serve(ids, countries, zones, causes, instants) ==
    \/ \E c \in ids, cc \in countries, y \in Years : CallGetHolidays(c, cc, y)
    \/ \E c \in ids, z \in zones : CallGetZoneStatus(c, z)
    \/ \E c \in ids, b \in HolidayBodies \cup UNION {ZoneBodies(z) : z \in zones} :
          RespondOk(c, b)
    \/ \E c \in ids, e \in causes : RespondError(c, MkError(e))
    \/ \E c \in ids : Wake(c)
    \/ Tick(instants)

\* Spec: provider calls that follow one another or overlap, around the two
\* expiry instants of the cache.
Instants ==
    {0,
     CACHE_TTL.TIMEZONES, CACHE_TTL.TIMEZONES + 1,
     CACHE_TTL.HOLIDAYS, CACHE_TTL.HOLIDAYS + 1}

Next == Serve(CallIds, {"CO"}, {"America/Bogota"}, {"status5xx"}, Instants)

Spec == Init /\ [][Next]_vars

\* SpecFetch: one provider call, every way an attempt can fail, the clock
\* read second by second.
FetchInstants == {0, 1000, 2000, 3000, 4000}

NextFetch == Serve({1}, {"CO"}, Zones, ErrorCauses, FetchInstants)

SpecFetch == Init /\ [][NextFetch]_vars

\* SpecCache: one provider call more than in Spec, around the expiry of a
\* zone status: an entry can be set, read and found expired while an entry
\* under another key is in the cache.
CacheCallIds == 1..(MaxCalls + 1)

CacheInstants == {0, CACHE_TTL.TIMEZONES, CACHE_TTL.TIMEZONES + 1}

InitCacheCalls ==
    /\ InitCache
    /\ calls = [c \in CacheCallIds |-> IdleCall]
    /\ now = 0
    /\ home = InitialHome
    /\ cmp = IdleCmp

NextCache == Serve(CacheCallIds, {"CO"}, {"America/Bogota"}, {"status5xx"}, CacheInstants)

SpecCache == InitCacheCalls /\ [][NextCache]_vars

\* SpecRefetch: provider calls whose upstream fails, for a country and for a
\* zone that the runtime does not know, the clock read at the retries.
RefetchInstants == {0, 1000, 3000}

NextRefetch == Serve(CallIds, {"CO"}, {"Mars/Phobos"}, {"status5xx"}, RefetchInstants)

SpecRefetch == Init /\ [][NextRefetch]_vars

(***************************************************************************)
(* The comparison engine on its awaited values: the holiday lists the two  *)
(* getHolidays calls resolved to and, per zone of each country, the value  *)
(* its getZoneStatus call resolved to.                                     *)
(***************************************************************************)
SeqsUpTo(S, n) == UNION {[1..k -> S] : k \in 0..n}

\* What getZoneStatus(zone) can resolve to: null or a status of the zone.
StatusValues(zone) ==
    {NULL} \cup {MkZoneStatus(zone, o, d) : o \in Offsets, d \in {FALSE}}

StatusLists(zones) ==
    {s \in [1..Len(zones) -> UNION {StatusValues(zones[i]) : i \in 1..Len(zones)}] :
        \A i \in 1..Len(zones) : s[i] \in StatusValues(zones[i])}

\* compareCountries(a, b, y) at the point where all its awaits have resolved.
Awaited(a, b, y, hA, hB, sA, sB) ==
    [pc |-> "awaited", countryA |-> a, countryB |-> b, year |-> y,
     holidaysA |-> hA, holidaysB |-> hB,
     statusesA |-> sA, statusesB |-> sB,
     result |-> NULL]

\* Every zone of the list resolved: the zones at the odd places to one offset
\* and those at the even places to another.
AllResolved(zones, odd, even) ==
    [i \in 1..Len(zones) |->
        MkZoneStatus(zones[i], IF i % 2 = 1 THEN odd ELSE even, FALSE)]

InitCompare ==
    /\ InitCache
    /\ InitCalls
    /\ now = 0
    /\ home = InitialHome
    /\ \/ \E a \in Countries, b \in Countries, y \in Years :
          \E hA \in SeqsUpTo(Holiday, MaxHolidays) :
          \E hB \in SeqsUpTo(Holiday, MaxHolidays - Len(hA)) :
          \E sA \in StatusLists(getTimezones(a)), sB \in StatusLists(getTimezones(b)) :
             cmp = Awaited(a, b, y, hA, hB, sA, sB)
       \/ \* compare("US", "CO", y), every zone resolved
          \E y \in Years, hA \in SeqsUpTo(Holiday, 1), hB \in SeqsUpTo(Holiday, 1) :
          \E odd \in Offsets, even \in Offsets, sB \in StatusLists(getTimezones("CO")) :
             cmp = Awaited("US", "CO", y, hA, hB,
                           AllResolved(getTimezones("US"), odd, even), sB)

\* compareCountries from its awaited values to its return value.
Compare ==
    /\ cmp.pc = "awaited"
    /\ cmp' = [cmp EXCEPT
                 !.pc = "returned",
                 !.result = ComparisonResult(cmp.countryA, cmp.countryB, cmp.year,
                                             cmp.holidaysA, cmp.holidaysB,
                                             cmp.statusesA, cmp.statusesB)]
    /\ UNCHANGED <<cache, now, calls, home>>

NextCompare == Compare

SpecCompare == InitCompare /\ [][NextCompare]_vars

(***************************************************************************)
(* compareCountries as a process: it calls getHolidays for the two         *)
(* countries, awaits both, calls getZoneStatus for every zone of the two   *)
(* countries, awaits them all and builds its result.  calls[1] and         *)
(* calls[2] are the getHolidays calls, the calls after them the            *)
(* getZoneStatus calls, A's zones first.                                   *)
(***************************************************************************)
\* zones.map(z => getZoneStatus(z)): the calls are made one after the other,
\* each up to its first await.
RECURSIVE InvokeZones(_, _, _)
InvokeZones(cacheMap, zones, t) ==
    IF zones = <<>>
    THEN [cache |-> cacheMap, calls |-> <<>>]
    ELSE LET first == InvokeGetZoneStatus(cacheMap, Head(zones), t)
             rest  == InvokeZones(first.cache, Tail(zones), t)
         IN  [cache |-> rest.cache, calls |-> <<first.call>> \o rest.calls]

\* The promise of a provider call is rejected.
Rejected(call) == call.result.kind = "thrown"

\* Faulty variant: only the getHolidays calls are awaited.
AllDoneHolidaysOnly(ids) == \A c \in ids : c <= 2 => calls[c].pc = "done"

\* await Promise.all(...) has all its promises settled.
AllDone(ids) == \A c \in ids : calls[c].pc = "done"

\* compareCountries up to its first await: Promise.all([getHolidays(countryA,
\* year), getHolidays(countryB, year)]).
CompareStart(countryA, countryB, year) ==
    /\ cmp.pc = "idle"
    /\ LET a == InvokeGetHolidays(cache, countryA, year, now)
           b == InvokeGetHolidays(a.cache, countryB, year, now)
       IN  /\ cache' = b.cache
           /\ calls' = <<a.call, b.call>>
    /\ cmp' = [Awaited(countryA, countryB, year, <<>>, <<>>, <<>>, <<>>)
                 EXCEPT !.pc = "holidays"]
    /\ UNCHANGED <<now, home>>

\* Both getHolidays calls have settled: compareCountries goes on to its second
\* await, or is rejected with the error of a rejected call.
HolidaysJoin ==
    /\ cmp.pc = "holidays"
    /\ AllDone({1, 2})
    /\ IF Rejected(calls[1]) \/ Rejected(calls[2])
       THEN /\ cmp' = [cmp EXCEPT !.pc = "threw",
                                  !.result = IF Rejected(calls[1])
                                             THEN calls[1].result
                                             ELSE calls[2].result]
            /\ UNCHANGED <<cache, calls>>
       ELSE LET zonesA  == getTimezones(cmp.countryA)
                zonesB  == getTimezones(cmp.countryB)
                invoked == InvokeZones(cache, zonesA \o zonesB, now)
            IN  /\ cmp' = [cmp EXCEPT !.pc = "zones",
                                      !.holidaysA = calls[1].result.items,
                                      !.holidaysB = calls[2].result.items]
                /\ cache' = invoked.cache
                /\ calls' = calls \o invoked.calls
    /\ UNCHANGED <<now, home>>

\* All getZoneStatus calls have settled: compareCountries builds its result.
ZonesJoin ==
    /\ cmp.pc = "zones"
    /\ AllDone(DOMAIN calls)
    /\ LET nA       == Len(getTimezones(cmp.countryA))
           statuses == [i \in 1..(Len(calls) - 2) |-> calls[i + 2].result]
           statusesA == SubSeq(statuses, 1, nA)
           statusesB == SubSeq(statuses, nA + 1, Len(statuses))
           rejected == {c \in 3..Len(calls) : Rejected(calls[c])}
       IN  IF rejected # {}
           THEN cmp' = [cmp EXCEPT !.pc = "threw",
                                   !.result = calls[CHOOSE c \in rejected :
                                                       \A d \in rejected : c <= d].result]
           ELSE cmp' = [cmp EXCEPT
                          !.pc = "returned",
                          !.statusesA = statusesA,
                          !.statusesB = statusesB,
                          !.result = ComparisonResult(cmp.countryA, cmp.countryB, cmp.year,
                                                      cmp.holidaysA, cmp.holidaysB,
                                                      statusesA, statusesB)]
    /\ UNCHANGED <<cache, now, calls, home>>

\* The countries of the comparisons: one with one zone, at offset zero, and a
\* code without a row.
EngineCountries == {"CI", "XX"}

EngineInstants == {0, 1000, 3000, 4000, 6000}

InitEngine ==
    /\ InitCache
    /\ calls = <<>>
    /\ now = 0
    /\ home = InitialHome
    /\ cmp = IdleCmp

NextEngine ==
    \/ \E a \in EngineCountries, b \in EngineCountries, y \in Years :
          CompareStart(a, b, y)
    \/ HolidaysJoin
    \/ ZonesJoin
    \/ \E c \in DOMAIN calls, b \in HolidayBodies \cup UNION {ZoneBodies(z) : z \in Zones} :
          RespondOk(c, b)
    \/ \E c \in DOMAIN calls : RespondError(c, MkError("status5xx"))
    \/ \E c \in DOMAIN calls : Wake(c)
    \/ Tick(EngineInstants)

SpecEngine == InitEngine /\ [][NextEngine]_vars

(***************************************************************************)
(* compareCountries under the scheduling of the runtime: a pending timer   *)
(* fires when its delay has passed, a continuation whose promises have     *)
(* settled runs, and every request sent gets an answer or an error.        *)
(***************************************************************************)
\* The calls one comparison can make: two getHolidays calls and one
\* getZoneStatus call for every zone of the two countries.
LiveCallIds ==
    LET sizes == {Len(getTimezones(c)) : c \in EngineCountries}
    IN  1..(2 + 2 * (CHOOSE n \in sizes : \A k \in sizes : k <= n))

\* Time passes until the delay of a pending setTimeout is over.
TimerDue ==
    /\ \E c \in DOMAIN calls :
          /\ calls[c].pc = "sleeping"
          /\ calls[c].wakeAt > now
          /\ now' = calls[c].wakeAt
    /\ UNCHANGED <<cache, calls, cmp, home>>

\* The bodies the services answer with here: a list of holidays, the data of
\* a zone.
LiveBodies ==
    {b \in HolidayBodies : b.kind = "array" /\ b.items # <<>>}
       \cup {b \in UNION {ZoneBodies(z) : z \in Zones} : "timezone" \in DOMAIN b}

\* The request of call c gets its answer: fetch resolves or rejects.
Answered(c) ==
    /\ c \in DOMAIN calls
    /\ \/ \E b \in LiveBodies : RespondOk(c, b)
       \/ RespondError(c, MkError("status5xx"))

\* The callback of the timer of call c runs.
TimerFires(c) == c \in DOMAIN calls /\ Wake(c)

NextLive ==
    \/ \E a \in EngineCountries, b \in EngineCountries, y \in Years :
          CompareStart(a, b, y)
    \/ HolidaysJoin
    \/ ZonesJoin
    \/ \E c \in LiveCallIds : Answered(c)
    \/ \E c \in LiveCallIds : TimerFires(c)
    \/ TimerDue

SpecLive ==
    /\ InitEngine
    /\ [][NextLive]_vars
    /\ WF_vars(HolidaysJoin)
    /\ WF_vars(ZonesJoin)
    /\ WF_vars(TimerDue)
    /\ \A c \in LiveCallIds : WF_vars(Answered(c)) /\ WF_vars(TimerFires(c))

(***************************************************************************)
(* The Home page (src/client/src/pages/Home.tsx): the selectors, the       *)
(* Compare button, the compare query and the two effects that take its     *)
(* outcome.  home.data, home.error and home.fetching are the state of the  *)
(* query client: the data and the errors kept per input, and the inputs    *)
(* whose request is on its way.                                            *)
(***************************************************************************)
\* The countries offered by the selectors.
PageCountries == {"CO", "DE"}

\* The years offered by the year selector, the current year among them.
PageYears == {2025, 2026}

\* The input of trpc.country.compare.useQuery: { countryA, countryB, year }.
QueryKey(h) == [countryA |-> h.countryA, countryB |-> h.countryB, year |-> h.year]

\* enabled: shouldCompare && !!countryA && !!countryB && countryA !== countryB
Enabled(h) ==
    h.shouldCompare /\ h.countryA # "" /\ h.countryB # "" /\ h.countryA # h.countryB

\* compareQuery.data: the data kept for the input of this render.
QueryData(h) ==
    IF \E e \in h.data : e.key = QueryKey(h)
    THEN (CHOOSE e \in h.data : e.key = QueryKey(h)).result
    ELSE NULL

\* compareQuery.error: whether the last request for the input failed.
QueryError(h) == QueryKey(h) \in h.error

\* isComparing = compareQuery.isLoading || compareQuery.isFetching
isComparing(h) == QueryKey(h) \in h.fetching

\* The query of a render: when it is enabled and no request for its input is
\* on its way, one is sent.
Observe(h) ==
    IF Enabled(h) /\ ~isComparing(h)
    THEN [h EXCEPT !.fetching = @ \cup {QueryKey(h)}]
    ELSE h

\* The two effects after a render: the data of the query becomes the result,
\* an error is reported, and either ends the comparison.
Effects(h) ==
    IF QueryData(h) # NULL /\ h.shouldCompare
    THEN [h EXCEPT !.result = QueryData(h), !.shouldCompare = FALSE,
                   !.toast = "success"]
    ELSE IF QueryError(h) /\ h.shouldCompare
         THEN [h EXCEPT !.shouldCompare = FALSE, !.toast = "error"]
         ELSE h

\* A render and what follows it.
Rendered(h) == Effects(Observe(h))

\* What the results section shows of the years: the year of the heading
\* "Calendarios Anuales", the year renderCalendar lays the months out for,
\* and the inputs of the result on display.
Displayed(h) ==
    [heading |-> h.year, calendar |-> h.year, inputs |-> h.result.inputs]

\* The comparison the server answers an input with: New Year's Day of the
\* year in both countries.
NewYear(countryCode, year) ==
    [date |-> ToString(year) \o "-01-01", name |-> "New Year's Day",
     localName |-> "New Year's Day", countryCode |-> countryCode]

PageAnswers(key) ==
    {ComparisonResult(key.countryA, key.countryB, key.year,
                      <<NewYear(key.countryA, key.year)>>,
                      <<NewYear(key.countryB, key.year)>>, <<>>, <<>>)}

\* <Select value={countryA} onValueChange={setCountryA}>
SetCountryA(c) ==
    /\ home' = Rendered([home EXCEPT !.countryA = c])
    /\ UNCHANGED <<cache, now, calls, cmp>>

\* <Select value={countryB} onValueChange={setCountryB}>
SetCountryB(c) ==
    /\ home' = Rendered([home EXCEPT !.countryB = c])
    /\ UNCHANGED <<cache, now, calls, cmp>>

\* <Select value={year.toString()} onValueChange={(v) => setYear(parseInt(v))}>
SetYear(y) ==
    /\ home' = Rendered([home EXCEPT !.year = y])
    /\ UNCHANGED <<cache, now, calls, cmp>>

\* A click on the Compare button, which is disabled while comparing and while
\* a country is missing.
handleCompare ==
    /\ ~isComparing(home) /\ home.countryA # "" /\ home.countryB # ""
    /\ home' = IF home.countryA = home.countryB
               THEN [home EXCEPT !.toast = "different"]
               ELSE Rendered([home EXCEPT !.result = NULL, !.shouldCompare = TRUE])
    /\ UNCHANGED <<cache, now, calls, cmp>>

\* The request for an input is answered with a comparison.
QueryResolves(key, answer) ==
    /\ key \in home.fetching
    /\ answer \in PageAnswers(key)
    /\ home' = Rendered([home EXCEPT
                            !.fetching = @ \ {key},
                            !.error = @ \ {key},
                            !.data = {e \in @ : e.key # key}
                                        \cup {[key |-> key, result |-> answer]}])
    /\ UNCHANGED <<cache, now, calls, cmp>>

\* The request for an input fails.
QueryFails(key) ==
    /\ key \in home.fetching
    /\ home' = Rendered([home EXCEPT !.fetching = @ \ {key}, !.error = @ \cup {key}])
    /\ UNCHANGED <<cache, now, calls, cmp>>

\* The inputs a request can be on its way for.
PageKeys ==
    [countryA : PageCountries, countryB : PageCountries, year : PageYears]

NextHome ==
    \/ \E c \in PageCountries : SetCountryA(c)
    \/ \E c \in PageCountries : SetCountryB(c)
    \/ \E y \in PageYears : SetYear(y)
    \/ handleCompare
    \/ \E key \in PageKeys : \E answer \in PageAnswers(key) : QueryResolves(key, answer)
    \/ \E key \in PageKeys : QueryFails(key)

SpecHome == Init /\ [][NextHome]_vars

(***************************************************************************)
(* The router: a procedure parses the input of a request with its zod      *)
(* schema and runs its query, which calls the helper, only when the input  *)
(* parses; otherwise the request is answered with a BAD_REQUEST error.  A  *)
(* behaviour serves requests to the provider routes, one at a time, or one *)
(* request to the compare route.                                           *)
(***************************************************************************)
\* A number in the input of a request: its integer part, and whether it has a
\* fractional part.
Num(whole, fraction) == [whole |-> whole, fraction |-> fraction]

\* z.string().length(2)
IsCode(s) == Len(s) = 2

\* Faulty variant: .max(2100) left out.
IsYearNoMax(n) == ~n.fraction /\ n.whole >= 2000

\* z.number().int().min(2000).max(2100)
IsYear(n) == ~n.fraction /\ n.whole >= 2000 /\ n.whole <= 2100

\* The request is answered with the error of the parser: no query runs.
BadRequest(op, input) == [pc |-> "bad_request", op |-> op, input |-> input]

\* Provider routes are served while no compare request is running.
NoCompare == cmp.pc \in {"idle", "bad_request"}

\* getHolidays: publicProcedure.input(...).query(...)
RouteGetHolidays(c, country, year) ==
    /\ NoCompare
    /\ IF IsCode(country) /\ IsYear(year)
       THEN CallGetHolidays(c, country, year.whole)
       ELSE /\ CanStart(c)
            /\ calls' = [calls EXCEPT ![c] =
                           BadRequest("getHolidays", [country |-> country, year |-> year])]
            /\ UNCHANGED <<cache, now, cmp, home>>

\* getTimezones: publicProcedure.input(...).query(...)
RouteGetTimezones(c, country) ==
    /\ NoCompare
    /\ CanStart(c)
    /\ calls' = [calls EXCEPT ![c] =
                   IF IsCode(country)
                   THEN [pc |-> "done", op |-> "getTimezones", arg |-> country,
                         result |-> getTimezones(country)]
                   ELSE BadRequest("getTimezones", [country |-> country])]
    /\ UNCHANGED <<cache, now, cmp, home>>

\* getZoneStatus: publicProcedure.input(z.object({ zone: z.string() })).query(...)
RouteGetZoneStatus(c, zone) ==
    /\ NoCompare
    /\ CallGetZoneStatus(c, zone)

\* compare: publicProcedure.input(...).query(...)
RouteCompare(countryA, countryB, year) ==
    /\ \A c \in DOMAIN calls : calls[c].pc = "idle"
    /\ IF IsCode(countryA) /\ IsCode(countryB) /\ IsYear(year)
       THEN CompareStart(countryA, countryB, year.whole)
       ELSE /\ cmp.pc = "idle"
            /\ cmp' = BadRequest("compare", [countryA |-> countryA,
                                             countryB |-> countryB, year |-> year])
            /\ UNCHANGED <<cache, now, calls, home>>

\* The codes and years of the requests: codes of 1, 2 and 3 characters, years
\* at both ends of the range and next to them, and a year that is no integer.
RouterCodes == {"C", "CI", "XX", "COL"}

RouterYears ==
    {Num(1999, FALSE), Num(2000, FALSE), Num(2100, FALSE), Num(2101, FALSE),
     Num(2025, TRUE)}

RouterInstants == {0, 1000}

NextRouter ==
    \/ \E cc \in RouterCodes, y \in RouterYears : RouteGetHolidays(1, cc, y)
    \/ \E cc \in RouterCodes : RouteGetTimezones(1, cc)
    \/ \E z \in Zones : RouteGetZoneStatus(1, z)
    \/ \E a \in RouterCodes, b \in RouterCodes, y \in RouterYears : RouteCompare(a, b, y)
    \/ HolidaysJoin
    \/ ZonesJoin
    \/ \E c \in DOMAIN calls, b \in HolidayBodies \cup UNION {ZoneBodies(z) : z \in Zones} :
          RespondOk(c, b)
    \/ \E c \in DOMAIN calls : RespondError(c, MkError("status5xx"))
    \/ \E c \in DOMAIN calls : Wake(c)
    \/ Tick(RouterInstants)

SpecRouter == Init /\ [][NextRouter]_vars

(***************************************************************************)
(* Claims about the comparison engine, checked under SpecCompare.          *)
(***************************************************************************)
Range(s) == {s[i] : i \in 1..Len(s)}
DateSet(s) == {s[i].date : i \in 1..Len(s)}
OffsetsOf(statuses) == {s.utc_offset : s \in Range(statuses) \ {NULL}}
Returned == cmp.pc = "returned"

\* C1: the dates of common are exactly the dates present in both holiday
\* lists, those of onlyA exactly the dates present only in A's list, those of
\* onlyB exactly the dates present only in B's list; a date appears once in
\* its section and in no other section.
C1_Partition ==
    Returned =>
        LET h  == cmp.result.holidays
            dA == DateSet(cmp.holidaysA)
            dB == DateSet(cmp.holidaysB)
        IN  /\ DateSet(h.common) = dA \cap dB
            /\ DateSet(h.onlyA) = dA \ dB
            /\ DateSet(h.onlyB) = dB \ dA
            /\ Len(h.common) = Cardinality(DateSet(h.common))
            /\ Len(h.onlyA) = Cardinality(DateSet(h.onlyA))
            /\ Len(h.onlyB) = Cardinality(DateSet(h.onlyB))
            /\ DateSet(h.common) \cap DateSet(h.onlyA) = {}
            /\ DateSet(h.common) \cap DateSet(h.onlyB) = {}
            /\ DateSet(h.onlyA) \cap DateSet(h.onlyB) = {}

\* A comparison with a common date, a date only in A and a date only in B.
C1_Witness ==
    /\ Returned
    /\ cmp.result.holidays.common # <<>>
    /\ cmp.result.holidays.onlyA # <<>>
    /\ cmp.result.holidays.onlyB # <<>>

\* C2: common.length + onlyA.length is the number of distinct dates of A's
\* holiday list and common.length + onlyB.length that of B's list, also when a
\* list holds several holidays on one date.
C2_Counts ==
    Returned =>
        LET h == cmp.result.holidays
        IN  /\ Len(h.common) + Len(h.onlyA) = Cardinality(DateSet(cmp.holidaysA))
            /\ Len(h.common) + Len(h.onlyB) = Cardinality(DateSet(cmp.holidaysB))

\* A comparison where both lists hold two holidays on the same date.
C2_Witness ==
    /\ Returned
    /\ Len(cmp.holidaysA) > Cardinality(DateSet(cmp.holidaysA))
    /\ Len(cmp.holidaysB) > Cardinality(DateSet(cmp.holidaysB))
    /\ cmp.result.holidays.common # <<>>

\* C3: an offset is in overlaps if and only if it is the utc_offset of a
\* resolved status of country A and of a resolved status of country B.
C3_OverlapsIffBoth ==
    Returned =>
        {e.offset : e \in Range(cmp.result.timezones.commonOffsetNow.overlaps)}
            = OffsetsOf(cmp.statusesA) \cap OffsetsOf(cmp.statusesB)

\* A comparison with an offset both countries share and an offset only A has.
C3_Witness ==
    /\ Returned
    /\ cmp.result.timezones.commonOffsetNow.overlaps # <<>>
    /\ OffsetsOf(cmp.statusesA) \ OffsetsOf(cmp.statusesB) # {}

\* The zones of the resolved statuses with the given offset, and their number.
ZonesAt(statuses, offset) ==
    {statuses[i].zone : i \in {j \in 1..Len(statuses) :
        statuses[j] # NULL /\ statuses[j].utc_offset = offset}}
CountAt(statuses, offset) ==
    Cardinality({j \in 1..Len(statuses) :
        statuses[j] # NULL /\ statuses[j].utc_offset = offset})

\* C4: in every entry of overlaps zonesA lists every resolved zone of A whose
\* utc_offset is the entry's offset and no other zone, and zonesB likewise.
C4_FullZoneLists ==
    Returned =>
        \A e \in Range(cmp.result.timezones.commonOffsetNow.overlaps) :
            /\ Range(e.zonesA) = ZonesAt(cmp.statusesA, e.offset)
            /\ Len(e.zonesA) = CountAt(cmp.statusesA, e.offset)
            /\ Range(e.zonesB) = ZonesAt(cmp.statusesB, e.offset)
            /\ Len(e.zonesB) = CountAt(cmp.statusesB, e.offset)

\* An overlap entry that lists two zones of A.
C4_Witness ==
    /\ Returned
    /\ \E e \in Range(cmp.result.timezones.commonOffsetNow.overlaps) :
          Len(e.zonesA) = 2 /\ Len(e.zonesB) >= 1

\* C5: no two entries of overlaps have the same offset.
C5_DistinctOffsets ==
    Returned =>
        LET ov == cmp.result.timezones.commonOffsetNow.overlaps
        IN  \A i, j \in 1..Len(ov) : ov[i].offset = ov[j].offset => i = j

\* Two zones of each country share one offset, which gives one entry.
C5_Witness ==
    /\ Returned
    /\ Len(cmp.result.timezones.commonOffsetNow.overlaps) = 1
    /\ \E o \in Offsets : CountAt(cmp.statusesA, o) = 2 /\ CountAt(cmp.statusesB, o) = 2

\* C6: hasOverlap is true exactly when overlaps is non-empty.
C6_HasOverlap ==
    Returned =>
        LET c == cmp.result.timezones.commonOffsetNow
        IN  c.hasOverlap <=> (c.overlaps # <<>>)

\* A comparison with exactly one overlap entry, reported as an overlap.
C6_Witness ==
    /\ Returned
    /\ Len(cmp.result.timezones.commonOffsetNow.overlaps) = 1
    /\ cmp.result.timezones.commonOffsetNow.hasOverlap

\* The places of a list of awaited statuses that hold a status.
Resolved(statuses) == {i \in 1..Len(statuses) : statuses[i] # NULL}

\* The k-th resolved place of the list.
KthResolved(statuses, k) ==
    CHOOSE i \in Resolved(statuses) :
        Cardinality({j \in Resolved(statuses) : j <= i}) = k

\* `list` holds the statuses that the zones `zones` resolved to, one entry per
\* resolved zone, in the order of `zones`.
InTableOrder(list, zones, statuses) ==
    /\ Len(statuses) = Len(zones)
    /\ Len(list) = Cardinality(Resolved(statuses))
    /\ \A k \in 1..Len(list) :
          /\ list[k] = statuses[KthResolved(statuses, k)]
          /\ list[k].zone = zones[KthResolved(statuses, k)]

\* C17: timezones.A holds exactly the statuses that the zones of country A's
\* row of COUNTRY_TIMEZONES resolved to, one entry per resolved zone, in the
\* order of the row, and timezones.B likewise; when every zone resolves,
\* compare("US", "CO", y) has 29 entries in timezones.A and 1 in timezones.B.
C17_StatusesInTableOrder ==
    Returned =>
        LET tz == cmp.result.timezones
            rowA == IF cmp.countryA \in DOMAIN COUNTRY_TIMEZONES
                    THEN COUNTRY_TIMEZONES[cmp.countryA] ELSE <<>>
            rowB == IF cmp.countryB \in DOMAIN COUNTRY_TIMEZONES
                    THEN COUNTRY_TIMEZONES[cmp.countryB] ELSE <<>>
        IN  /\ InTableOrder(tz.A, rowA, cmp.statusesA)
            /\ InTableOrder(tz.B, rowB, cmp.statusesB)
            /\ (/\ cmp.countryA = "US" /\ cmp.countryB = "CO"
                /\ Resolved(cmp.statusesA) = 1..Len(cmp.statusesA)
                /\ Resolved(cmp.statusesB) = 1..Len(cmp.statusesB))
                  => Len(tz.A) = 29 /\ Len(tz.B) = 1

\* compare("US", "CO", 2025) with every zone resolved: 29 statuses for US, the
\* first of America/New_York and the last of Pacific/Honolulu, and 1 for CO.
C17_Witness ==
    /\ Returned
    /\ cmp.countryA = "US" /\ cmp.countryB = "CO"
    /\ Len(cmp.result.timezones.A) = 29
    /\ cmp.result.timezones.A[1].zone = "America/New_York"
    /\ cmp.result.timezones.A[29].zone = "Pacific/Honolulu"
    /\ Len(cmp.result.timezones.B) = 1

\* C18: compareCountries with a country code that has no row in
\* COUNTRY_TIMEZONES returns a result: that side's list of statuses is empty,
\* overlaps is empty and hasOverlap is false, and the holiday partition is
\* computed as for any other code.
C18_NoTimezoneRow ==
    Returned =>
        LET r  == cmp.result
            dA == DateSet(cmp.holidaysA)
            dB == DateSet(cmp.holidaysB)
        IN  /\ r.kind = "result"
            /\ cmp.countryA \notin DOMAIN COUNTRY_TIMEZONES => r.timezones.A = <<>>
            /\ cmp.countryB \notin DOMAIN COUNTRY_TIMEZONES => r.timezones.B = <<>>
            /\ (\/ cmp.countryA \notin DOMAIN COUNTRY_TIMEZONES
                \/ cmp.countryB \notin DOMAIN COUNTRY_TIMEZONES) =>
                  /\ r.timezones.commonOffsetNow.overlaps = <<>>
                  /\ r.timezones.commonOffsetNow.hasOverlap = FALSE
                  /\ DateSet(r.holidays.common) = dA \cap dB
                  /\ DateSet(r.holidays.onlyA) = dA \ dB
                  /\ DateSet(r.holidays.onlyB) = dB \ dA

\* compare("XX", "DE", 2025): no status for XX, both zones of DE resolved, no
\* overlap, and holidays in common.
C18_Witness ==
    /\ Returned
    /\ cmp.countryA = "XX" /\ cmp.countryB = "DE"
    /\ cmp.result.timezones.A = <<>>
    /\ Len(cmp.result.timezones.B) = 2
    /\ cmp.result.timezones.commonOffsetNow.overlaps = <<>>
    /\ cmp.result.holidays.common # <<>>

\* The last holiday of the list that falls on the date.
LastOn(holidays, date) ==
    holidays[CHOOSE i \in 1..Len(holidays) :
                /\ holidays[i].date = date
                /\ \A j \in (i + 1)..Len(holidays) : holidays[j].date # date]

\* C25: when a side's list has several holidays on one date, the last of them
\* in list order is used: the common entry of the date carries its name as
\* nameA (or nameB), and the onlyA (or onlyB) entry of the date is its full
\* record (date, name, localName, countryCode).
C25_LastOfDateWins ==
    Returned =>
        LET h  == cmp.result.holidays
            dA == DateSet(cmp.holidaysA)
            dB == DateSet(cmp.holidaysB)
        IN  /\ \A d \in dA \cap dB :
                  /\ \E e \in Range(h.common) : e.date = d
                  /\ \A e \in Range(h.common) :
                        e.date = d =>
                           /\ e.nameA = LastOn(cmp.holidaysA, d).name
                           /\ e.nameB = LastOn(cmp.holidaysB, d).name
            /\ \A d \in dA \ dB :
                  /\ LastOn(cmp.holidaysA, d) \in Range(h.onlyA)
                  /\ \A e \in Range(h.onlyA) :
                        e.date = d => e = LastOn(cmp.holidaysA, d)
            /\ \A d \in dB \ dA :
                  /\ LastOn(cmp.holidaysB, d) \in Range(h.onlyB)
                  /\ \A e \in Range(h.onlyB) :
                        e.date = d => e = LastOn(cmp.holidaysB, d)
            /\ \A e \in Range(h.onlyA) \cup Range(h.onlyB) :
                  DOMAIN e = {"date", "name", "localName", "countryCode"}

\* Both lists have two holidays on 2025-01-01, in opposite orders: the common
\* entry has the name of A's second holiday as nameA and the name of B's
\* second holiday as nameB.
C25_Witness ==
    /\ Returned
    /\ Len(cmp.holidaysA) = 2 /\ Len(cmp.holidaysB) = 2
    /\ cmp.holidaysA[1].date = cmp.holidaysA[2].date
    /\ cmp.holidaysA[1].name # cmp.holidaysA[2].name
    /\ cmp.holidaysB = <<cmp.holidaysA[2], cmp.holidaysA[1]>>
    /\ cmp.result.holidays.common
          = <<[date  |-> cmp.holidaysA[1].date,
               nameA |-> cmp.holidaysA[2].name,
               nameB |-> cmp.holidaysA[1].name]>>

(***************************************************************************)
(* Claims about the cache and the holiday provider, checked under Spec.    *)
(***************************************************************************)
\* Call c runs its provider up to the first await in this step: the lookup.
Invoked(c) == calls[c].pc = "idle" /\ calls'[c].pc # "idle"

\* Call c runs setCache in this step.
Stores(c) == calls[c].pc = "fetching" /\ calls'[c].storedAt >= 0

\* The TTL the claim names for the key of a call: 24 hours for a holiday key,
\* 1 hour for a zone-status key.
ClaimedTtl(call) ==
    IF call.op = "getHolidays" THEN 24 * 60 * 60 * 1000 ELSE 60 * 60 * 1000

\* C7: a value set under a key at time t is what a lookup of the key returns,
\* unchanged, at every time now with now - t <= ttl (now - t = ttl included),
\* and the lookup returns absent when now - t > ttl; ttl is 24 hours for a
\* holiday key and 1 hour for a zone-status key.
C7_CacheRoundTrip ==
    [][\A c \in CallIds :
        /\ Stores(c) =>
              /\ MapHas(cache', KeyOf(calls'[c]))
              /\ MapGet(cache', KeyOf(calls'[c]))
                    = [data |-> calls'[c].result, timestamp |-> now]
        /\ (Invoked(c) /\ MapHas(cache, KeyOf(calls'[c]))) =>
              LET entry == MapGet(cache, KeyOf(calls'[c]))
              IN  IF now - entry.timestamp <= ClaimedTtl(calls'[c])
                  THEN calls'[c].hit /\ calls'[c].result = entry.data
                  ELSE ~calls'[c].hit /\ calls'[c].result = NULL
      ]_vars

\* A zone status set by one call and returned to the next from an entry that
\* is exactly one hour old.
C7_Witness ==
    \E c, d \in CallIds :
        /\ calls[c].pc = "done" /\ calls[c].storedAt >= 0
        /\ calls[c].op = "getZoneStatus"
        /\ calls[d].pc = "done" /\ calls[d].hit
        /\ calls[d].op = "getZoneStatus" /\ calls[d].age = 60 * 60 * 1000
        /\ calls[d].result = calls[c].result

\* Call second is a call of getHolidays for the country and year of the
\* completed call first, and starts in this step.
SecondCall(first, second) ==
    /\ first # second
    /\ calls[first].pc = "done"
    /\ calls[first].op = "getHolidays"
    /\ Invoked(second)
    /\ calls'[second].op = "getHolidays"
    /\ calls'[second].arg = calls[first].arg
    /\ calls'[second].year = calls[first].year

\* C8 as stated: a second call of getHolidays(cc, year), made within 24 hours
\* of the first (the clock starts at 0, so at a time now <= 24 h), is served
\* from the cache and makes no HTTP request.
C8_SecondCallNeverFetches ==
    [][\A first, second \in CallIds :
        (SecondCall(first, second) /\ now <= 24 * 60 * 60 * 1000)
            => (calls'[second].hit /\ calls'[second].attempts = 0)
      ]_vars

\* C8 amended: when the first call fetched its holidays and cached them, a
\* second call for the same country and year that starts after the first has
\* completed and at most 24 hours after the first cached its result is served
\* from the cache and makes no HTTP request.
C8_SecondCallServedFromCache ==
    [][\A first, second \in CallIds :
        (/\ SecondCall(first, second)
         /\ calls[first].storedAt >= 0
         /\ now - calls[first].storedAt <= 24 * 60 * 60 * 1000)
            => /\ calls'[second].hit
               /\ calls'[second].attempts = 0
               /\ calls'[second].result = MapGet(cache, KeyOf(calls[first])).data
      ]_vars

\* Two calls of getHolidays("CO", 2025): the first fetched and cached the
\* list, the second was served from the cache 24 hours later.
C8_Witness ==
    \E first, second \in CallIds :
        /\ calls[first].pc = "done" /\ calls[first].op = "getHolidays"
        /\ calls[first].storedAt >= 0 /\ calls[first].attempts >= 1
        /\ calls[second].pc = "done" /\ calls[second].op = "getHolidays"
        /\ calls[second].hit /\ calls[second].attempts = 0
        /\ calls[second].age = 24 * 60 * 60 * 1000
        /\ calls[second].result = calls[first].result

(***************************************************************************)
(* Claims about fetchWithRetry, checked under SpecFetch.                   *)
(***************************************************************************)
\* The calls that ran fetchWithRetry.
Fetching == {c \in CallIds : calls[c].pc # "idle" /\ ~calls[c].hit}

Failures(log) == {k \in 1..Len(log) : log[k].kind = "error"}

\* C9: fetchWithRetry makes at most 3 attempts; it returns the body of the
\* first attempt that succeeds and makes no attempt after it; it throws only
\* after exactly 3 failed attempts, and throws the error of the third.
C9_ThreeAttempts ==
    \A c \in Fetching :
        LET call == calls[c]
        IN  /\ call.attempts <= 3
            /\ Len(call.log) <= call.attempts
            /\ (call.pc = "done") = (call.fetched # NULL)
            /\ (call.fetched # NULL /\ call.fetched.kind = "ok") =>
                  /\ Len(call.log) = call.attempts
                  /\ call.log[Len(call.log)] = call.fetched
                  /\ Failures(call.log) = 1..(Len(call.log) - 1)
            /\ (call.fetched # NULL /\ call.fetched.kind = "thrown") =>
                  /\ call.attempts = 3
                  /\ Failures(call.log) = 1..3
                  /\ call.fetched.error = call.log[3]
            /\ (call.fetched = NULL) => Failures(call.log) = 1..Len(call.log)

\* fetchWithRetry threw after three failed attempts whose errors differ.
C9_Witness ==
    \E c \in Fetching :
        /\ calls[c].fetched # NULL
        /\ calls[c].fetched.kind = "thrown"
        /\ calls[c].log[1] # calls[c].log[3]
        /\ calls[c].log[2] # calls[c].log[3]

RECURSIVE SumSeq(_)
SumSeq(s) == IF s = <<>> THEN 0 ELSE s[1] + SumSeq(Tail(s))

Min(a, b) == IF a < b THEN a ELSE b

\* C10: the wait before retry k (k = 1, 2) is k seconds and no wait follows
\* the last failed attempt; two failures followed by a success wait 1 s and
\* then 2 s; a call sleeps 3 seconds at most.
C10_Backoff ==
    \A c \in Fetching :
        LET call == calls[c]
        IN  /\ call.delays = [k \in 1..Len(call.delays) |-> 1000 * k]
            /\ Len(call.delays) = Min(Cardinality(Failures(call.log)), 2)
            /\ SumSeq(call.delays) <= 3000
            /\ call.pc = "sleeping" =>
                  call.wakeAt >= call.delays[Len(call.delays)]

\* Two failed attempts and a success on the third: waits of 1 s and 2 s.
C10_Witness ==
    \E c \in Fetching :
        /\ calls[c].fetched # NULL
        /\ calls[c].fetched.kind = "ok"
        /\ calls[c].attempts = 3
        /\ calls[c].delays = <<1000, 2000>>

\* Call c has an attempt fail in this step.
AttemptFails(c) ==
    /\ calls[c].pc = "fetching"
    /\ Len(calls'[c].log) = Len(calls[c].log) + 1
    /\ calls'[c].log[Len(calls'[c].log)].kind = "error"

DoneCalls(op) == {c \in DOMAIN calls : calls[c].pc = "done" /\ calls[c].op = op}

\* C12: getHolidays never throws to its caller: it returns a list, and the
\* empty list when fetchWithRetry threw after its last attempt or when the
\* body it returned is not an array that can be normalized.
C12_HolidaysNeverThrow ==
    \A c \in DoneCalls("getHolidays") :
        LET call == calls[c]
        IN  /\ call.result.kind = "list"
            /\ (call.fetched # NULL /\ call.fetched.kind = "thrown") =>
                  call.result = MkList(<<>>)
            /\ (/\ call.fetched # NULL
                /\ call.fetched.kind = "ok"
                /\ call.fetched.body.kind # "array") =>
                  call.result = MkList(<<>>)

\* getHolidays returned [] after three failed attempts.
C12_Witness ==
    \E c \in DoneCalls("getHolidays") :
        /\ calls[c].attempts = 3
        /\ calls[c].fetched.kind = "thrown"
        /\ calls[c].result = MkList(<<>>)

\* C13: when the primary holiday source has failed after all retries and the
\* credential of the secondary source is configured, getHolidays sends a
\* request to the secondary source before it returns.
C13_SecondaryConsulted ==
    \A c \in DoneCalls("getHolidays") :
        (/\ calls[c].fetched # NULL
         /\ calls[c].fetched.kind = "thrown"
         /\ CALENDARIFIC_KEY # UNDEFINED)
            => calls[c].secondary >= 1

\* C15: getZoneStatus never throws to its caller, and it returns absent
\* (null) only when the live service has failed on all its attempts and the
\* local computation has failed too for the zone.
C15_NullOnlyWhenBothFail ==
    \A c \in DoneCalls("getZoneStatus") :
        LET call == calls[c]
        IN  /\ call.result.kind \in {"zone", "null"}
            /\ call.result = NULL =>
                  /\ call.fetched # NULL
                  /\ call.fetched.kind = "thrown"
                  /\ Cardinality(Failures(call.log)) = 3
                  /\ ~KnownZone(call.arg)

\* getZoneStatus("Mars/Phobos") returned null: the live service failed three
\* times and the runtime does not know the zone.
C15_Witness ==
    \E c \in DoneCalls("getZoneStatus") :
        /\ calls[c].arg = "Mars/Phobos"
        /\ calls[c].attempts = 3
        /\ calls[c].result = NULL

\* The strings of the form sign, two-digit hour, ":", two-digit minute that
\* are offsets of time zones.
OffsetForm ==
    {sign \o hh \o ":" \o mm :
        sign \in {"+", "-"},
        hh \in {"00", "01", "02", "03", "04", "05", "06", "07",
                "08", "09", "10", "11", "12", "13", "14"},
        mm \in {"00", "30", "45"}}

\* The zone statuses the cache holds.
CachedStatuses ==
    {cache[k][2].data : k \in {j \in 1..Len(cache) : cache[j][2].data.kind = "zone"}}

\* The zone statuses completed calls returned.
ReturnedStatuses ==
    {calls[c].result : c \in {d \in DoneCalls("getZoneStatus") : calls[d].result # NULL}}

\* C16: every ZoneStatus that getZoneStatus returns or caches, resolved by the
\* live service or by the local fallback, has a utc_offset of the form sign,
\* two-digit hour, ":", two-digit minute, a zone of offset zero resolved by
\* the local fallback included.  (A status built from a live reply that has
\* no utc_offset field is left aside.)
C16_OffsetFormat ==
    \A status \in ReturnedStatuses \cup CachedStatuses :
        status.utc_offset # UNDEFINED => status.utc_offset \in OffsetForm

(***************************************************************************)
(* The local fallback of getZoneStatus and the cache, checked under Spec.  *)
(***************************************************************************)
\* Call c of getZoneStatus ends in this step after fetchWithRetry threw, for a
\* zone the runtime can compute the offset of.
FallsBack(c) ==
    /\ calls[c].pc = "fetching"
    /\ calls'[c].pc = "done"
    /\ calls'[c].op = "getZoneStatus"
    /\ calls'[c].fetched.kind = "thrown"
    /\ KnownZone(calls'[c].arg)

\* C14: when the live time service has failed for a zone after all retries
\* and the local computation succeeds, getZoneStatus returns a status of the
\* requested zone with the locally computed offset and dst = false and caches
\* it; a call for the zone that starts within the next hour, the entry still
\* in place, returns that status without a request to the live service.
C14_FallbackCached ==
    [][\A c \in CallIds :
        /\ FallsBack(c) =>
              /\ calls'[c].attempts = 3
              /\ calls'[c].result.zone = calls'[c].arg
              /\ calls'[c].result.utc_offset = ReplaceGMT(LongOffsetName(calls'[c].arg))
              /\ calls'[c].result.dst = FALSE
              /\ MapHas(cache', KeyOf(calls'[c]))
              /\ MapGet(cache', KeyOf(calls'[c]))
                    = [data |-> calls'[c].result, timestamp |-> now]
        /\ \A d \in CallIds :
              (/\ calls[c].pc = "done" /\ calls[c].op = "getZoneStatus"
               /\ calls[c].fetched # NULL /\ calls[c].fetched.kind = "thrown"
               /\ calls[c].storedAt >= 0
               /\ Invoked(d)
               /\ calls'[d].op = "getZoneStatus" /\ calls'[d].arg = calls[c].arg
               /\ now - calls[c].storedAt <= 60 * 60 * 1000
               /\ MapHas(cache, KeyOf(calls[c]))
               /\ MapGet(cache, KeyOf(calls[c]))
                     = [data |-> calls[c].result, timestamp |-> calls[c].storedAt])
                  => /\ calls'[d].hit
                     /\ calls'[d].attempts = 0
                     /\ calls'[d].result = calls[c].result
      ]_vars

\* The live service failed three times for America/Bogota, the status was
\* computed locally, and a later call got it from the cache.
C14_Witness ==
    \E c, d \in CallIds :
        /\ calls[c].pc = "done" /\ calls[c].op = "getZoneStatus"
        /\ calls[c].fetched # NULL /\ calls[c].fetched.kind = "thrown"
        /\ calls[c].result = MkZoneStatus("America/Bogota", "-05:00", FALSE)
        /\ calls[d].pc = "done" /\ calls[d].op = "getZoneStatus"
        /\ calls[d].hit /\ calls[d].attempts = 0
        /\ calls[d].result = calls[c].result

(***************************************************************************)
(* Claims about compareCountries and the upstream services, checked under  *)
(* SpecEngine.                                                             *)
(***************************************************************************)
\* The calls whose fetchWithRetry threw after its last attempt.
FailedCalls ==
    {c \in DOMAIN calls : calls[c].fetched # NULL /\ calls[c].fetched.kind = "thrown"}

\* C19: compareCountries never passes an upstream failure on to its caller:
\* whichever holiday and time-service requests fail, it is not rejected, and
\* the result it returns echoes the two codes and the year and has common,
\* onlyA, onlyB, timezones.A, timezones.B and commonOffsetNow.
C19_NeverPropagates ==
    /\ cmp.pc # "threw"
    /\ \A c \in DOMAIN calls : ~Rejected(calls[c])
    /\ Returned =>
          LET r == cmp.result
          IN  /\ r.kind = "result"
              /\ r.inputs = [countryA |-> cmp.countryA, countryB |-> cmp.countryB,
                             year |-> cmp.year]
              /\ DOMAIN r.holidays = {"common", "onlyA", "onlyB"}
              /\ DOMAIN r.timezones = {"A", "B", "commonOffsetNow"}
              /\ DOMAIN r.timezones.commonOffsetNow = {"hasOverlap", "overlaps"}
              /\ r.timezones.commonOffsetNow.hasOverlap \in BOOLEAN
              /\ \A list \in {r.holidays.common, r.holidays.onlyA, r.holidays.onlyB,
                               r.timezones.A, r.timezones.B,
                               r.timezones.commonOffsetNow.overlaps} :
                    DOMAIN list = 1..Len(list)

\* compare("CI", "CI", 2025) returned although every request to the holiday
\* service and to the time service failed, three times each.
C19_Witness ==
    /\ Returned
    /\ cmp.countryA = "CI" /\ cmp.countryB = "CI"
    /\ FailedCalls = 1..4
    /\ cmp.result.holidays.common = <<>>
    /\ Len(cmp.result.timezones.A) = 1

\* compareCountries returned for the same code on both sides.
SelfCompared == Returned /\ cmp.countryA = cmp.countryB

\* The report of a full self-match: no holiday on one side only, one common
\* entry per distinct date of the holidays, and every offset of a resolved
\* zone in overlaps with zonesA equal to zonesB.
FullSelfMatch ==
    LET r == cmp.result
    IN  /\ r.holidays.onlyA = <<>>
        /\ r.holidays.onlyB = <<>>
        /\ Len(r.holidays.common) = Cardinality(DateSet(cmp.holidaysA))
        /\ DateSet(r.holidays.common) = DateSet(cmp.holidaysA)
        /\ Len(r.holidays.common) = Cardinality(DateSet(cmp.holidaysB))
        /\ \A o \in OffsetsOf(cmp.statusesA) \cup OffsetsOf(cmp.statusesB) :
              \E e \in Range(r.timezones.commonOffsetNow.overlaps) :
                  e.offset = o /\ e.zonesA = e.zonesB

\* The upstream services answer alike to requests that succeed for the same
\* country and year or for the same zone.
ConsistentUpstream ==
    \A c, d \in DOMAIN calls \ FailedCalls :
        (/\ calls[c].fetched # NULL
         /\ calls[d].fetched # NULL
         /\ KeyOf(calls[c]) = KeyOf(calls[d]))
            => calls[c].fetched.body = calls[d].fetched.body

\* C20 as stated: compareCountries(X, X, year) reports a full self-match in
\* every execution, those where only some of the concurrently issued upstream
\* requests fail included (the upstream answering alike whenever it answers).
C20_SelfCompareAlways == (SelfCompared /\ ConsistentUpstream) => FullSelfMatch

\* C20 amended: compareCountries(X, X, year) reports a full self-match when
\* its two getHolidays calls resolved to the same list and its getZoneStatus
\* calls resolved to the same statuses on both sides.
C20_SelfCompareSameValues ==
    (/\ SelfCompared
     /\ cmp.holidaysA = cmp.holidaysB
     /\ cmp.statusesA = cmp.statusesB) => FullSelfMatch

\* compare("CI", "CI", 2025) whose four requests all succeeded: one common
\* holiday and the offset +00:00 in overlaps.
C20_Witness ==
    /\ SelfCompared
    /\ FailedCalls = {}
    /\ cmp.holidaysA = cmp.holidaysB
    /\ cmp.statusesA = cmp.statusesB
    /\ Len(cmp.result.holidays.common) = 1
    /\ Len(cmp.result.timezones.commonOffsetNow.overlaps) = 1
    /\ cmp.result.timezones.commonOffsetNow.overlaps[1].offset = "+00:00"

\* C21: within one compareCountries call the holiday partition starts only
\* after both getHolidays calls have completed, on the lists they returned,
\* and the offset grouping starts only after every getZoneStatus call of both
\* countries has completed, on the values they returned, in every
\* interleaving of the fetches.
C21_Join ==
    [][/\ (cmp.pc = "holidays" /\ cmp'.pc # "holidays") =>
             /\ calls[1].pc = "done" /\ calls[2].pc = "done"
             /\ cmp'.holidaysA = calls[1].result.items
             /\ cmp'.holidaysB = calls[2].result.items
       /\ (cmp.pc = "zones" /\ cmp'.pc # "zones") =>
             /\ \A c \in DOMAIN calls : calls[c].pc = "done"
             /\ cmp'.statusesA \o cmp'.statusesB
                   = [i \in 1..(Len(calls) - 2) |-> calls[i + 2].result]
      ]_vars

\* compare("CI", "CI", 2025) returned after B's getHolidays call had completed
\* on its first attempt and A's on its third, and A's getZoneStatus call on
\* its first attempt and B's on its third.
C21_Witness ==
    /\ Returned
    /\ Len(calls) = 4
    /\ calls[1].attempts = 3 /\ calls[2].attempts = 1
    /\ calls[3].attempts = 1 /\ calls[4].attempts = 3

\* The pairs of completed calls that missed the cache for the same key: in
\* SpecEngine the two calls of a pair are made in the same step, so they
\* overlap.
SameKeyPairs ==
    {p \in (DOMAIN calls) \X (DOMAIN calls) :
        /\ p[1] < p[2]
        /\ calls[p[1]].pc = "done" /\ ~calls[p[1]].hit
        /\ calls[p[2]].pc = "done" /\ ~calls[p[2]].hit
        /\ KeyOf(calls[p[1]]) = KeyOf(calls[p[2]])}

\* The entries the cache holds under a key.
EntriesUnder(key) == {k \in 1..Len(cache) : cache[k][1] = key}

Max(a, b) == IF a > b THEN a ELSE b

\* C24 as stated: when two provider calls for the same key overlap and a
\* result is written, after both have completed the cache holds for the key
\* one value that equals what each of the two calls returned (the upstream
\* answering alike whenever it answers).
C24_EquivalentOverwrite ==
    \A p \in SameKeyPairs :
        LET c == calls[p[1]]
            d == calls[p[2]]
        IN  (ConsistentUpstream /\ (c.storedAt >= 0 \/ d.storedAt >= 0)) =>
               /\ Cardinality(EntriesUnder(KeyOf(c))) = 1
               /\ MapGet(cache, KeyOf(c)).data = c.result
               /\ MapGet(cache, KeyOf(c)).data = d.result

\* C24 amended: when two overlapping provider calls for the same key obtain
\* the same answer (their fetches return the same body, or both fail), they
\* return equal values, and if the value is cached the cache holds one entry
\* for the key, with that value and the time of the later write.
C24_SameAnswerSameValue ==
    \A p \in SameKeyPairs :
        LET c == calls[p[1]]
            d == calls[p[2]]
        IN  (\/ c.fetched.kind = "thrown" /\ d.fetched.kind = "thrown"
             \/ /\ c.fetched.kind = "ok" /\ d.fetched.kind = "ok"
                /\ c.fetched.body = d.fetched.body) =>
               /\ c.result = d.result
               /\ (c.storedAt >= 0) = (d.storedAt >= 0)
               /\ c.storedAt >= 0 =>
                     /\ Cardinality(EntriesUnder(KeyOf(c))) = 1
                     /\ MapGet(cache, KeyOf(c))
                           = [data |-> c.result,
                              timestamp |-> Max(c.storedAt, d.storedAt)]

\* The two getZoneStatus("Africa/Abidjan") calls of compare("CI", "CI", 2025)
\* both fetched the status, the second one second after the first: the cache
\* holds it once, written at the later time.
C24_Witness ==
    /\ <<3, 4>> \in SameKeyPairs
    /\ calls[3].fetched.kind = "ok" /\ calls[4].fetched.kind = "ok"
    /\ calls[3].storedAt >= 0
    /\ calls[4].storedAt > calls[3].storedAt
    /\ calls[3].result = calls[4].result
    /\ MapGet(cache, KeyOf(calls[3])).timestamp = calls[4].storedAt

(***************************************************************************)
(* Claims about the router, checked under SpecRouter.                      *)
(***************************************************************************)
\* The requests whose query ran: the helper was called.
Accepted == {c \in DOMAIN calls : calls[c].pc \notin {"idle", "bad_request"}}

\* C22: through the router getHolidays and compareCountries are called only
\* with country codes of exactly 2 characters and an integer year in
\* 2000..2100, and getTimezones only with a code of 2 characters; a request
\* that violates this is rejected before any helper runs: the cache has
\* entries only under the keys of the calls that were made, and a rejected
\* request has sent nothing upstream.
C22_ValidatedInputs ==
    /\ \A c \in Accepted :
          /\ calls[c].op \in {"getHolidays", "getTimezones"} => Len(calls[c].arg) = 2
          /\ calls[c].op = "getHolidays" => calls[c].year \in 2000..2100
    /\ cmp.pc \notin {"idle", "bad_request"} =>
          /\ Len(cmp.countryA) = 2 /\ Len(cmp.countryB) = 2
          /\ cmp.year \in 2000..2100
    /\ \A k \in 1..Len(cache) :
          \E c \in Accepted :
              calls[c].op \in {"getHolidays", "getZoneStatus"} /\ cache[k][1] = KeyOf(calls[c])
    /\ \A c \in DOMAIN calls :
          calls[c].pc = "bad_request" => "attempts" \notin DOMAIN calls[c]
    /\ cmp.pc = "bad_request" => DOMAIN calls = CallIds

\* A compare request for the year 2101 was rejected, nothing was fetched for
\* it, and a getHolidays request for the year 2100 was served and cached.
C22_Witness ==
    /\ cmp.pc = "bad_request"
    /\ cmp.input.year = Num(2101, FALSE)
    /\ calls[1].pc = "done"
    /\ calls[1].op = "getHolidays"
    /\ calls[1].year = 2100
    /\ Len(cache) = 1

\* C23: compareCountries is never reached through the compare route with
\* countryA equal to countryB.
C23_DistinctCodes ==
    cmp.pc \notin {"idle", "bad_request"} => cmp.countryA # cmp.countryB

(***************************************************************************)
(* Claims about what the providers write to and remove from the cache,     *)
(* checked under SpecCache and SpecRefetch.                                *)
(***************************************************************************)
KeysOf(cacheMap) == {cacheMap[k][1] : k \in 1..Len(cacheMap)}

\* Call c looks up its key in this step and the entry under it is expired.
LooksUpExpired(c) ==
    /\ Invoked(c)
    /\ MapHas(cache, KeyOf(calls'[c]))
    /\ now - MapGet(cache, KeyOf(calls'[c])).timestamp > ClaimedTtl(calls'[c])

\* C26: eviction is lazy only: a lookup of an expired key removes the entry
\* of that key and leaves every other entry as it was, and no other step
\* removes an entry, so an expired entry stays in the map until its key is
\* looked up.
C26_LazyEviction ==
    [][/\ \A c \in DOMAIN calls :
             LooksUpExpired(c) =>
                /\ KeysOf(cache') = KeysOf(cache) \ {KeyOf(calls'[c])}
                /\ \A k \in KeysOf(cache') : MapGet(cache', k) = MapGet(cache, k)
       /\ KeysOf(cache) \ KeysOf(cache') # {} =>
             \E c \in DOMAIN calls : LooksUpExpired(c)
      ]_vars

\* The status of America/Bogota cached by one call has been removed by the
\* lookup of a later call, after more than an hour, and the holidays cached
\* in the meantime are still in the cache.
C26_Witness ==
    /\ \E c \in DOMAIN calls :
          /\ calls[c].pc = "done" /\ calls[c].op = "getZoneStatus"
          /\ calls[c].storedAt >= 0
          /\ now - calls[c].storedAt > 60 * 60 * 1000
    /\ \E d \in DOMAIN calls :
          /\ calls[d].pc = "fetching" /\ calls[d].op = "getZoneStatus"
    /\ KeysOf(cache) = {"holidays:CO:2025"}

\* C30: a cache hit changes nothing in the cache: a provider call served
\* from the cache leaves every entry, value and timestamp, as it was and
\* writes no entry, so the timestamp of an entry is the time a call set it
\* and the entry expires ttl after that, however often it was read.
C30_HitLeavesCache ==
    [][\A c \in DOMAIN calls :
         /\ (Invoked(c) /\ calls'[c].hit) =>
               /\ cache' = cache
               /\ calls'[c].storedAt = -1
               /\ calls'[c].attempts = 0
         /\ (Invoked(c) /\ MapHas(cache, KeyOf(calls'[c]))) =>
               LET entry == MapGet(cache, KeyOf(calls'[c]))
               IN  /\ \E d \in DOMAIN calls :
                         /\ calls[d].pc = "done" /\ ~calls[d].hit
                         /\ KeyOf(calls[d]) = KeyOf(calls'[c])
                         /\ calls[d].storedAt = entry.timestamp
                         /\ calls[d].result = entry.data
                   /\ calls'[c].hit = (now - entry.timestamp <= ClaimedTtl(calls'[c]))
      ]_vars

\* A zone status set at time 0 was read from the cache one hour later and was
\* found expired by the next call, one millisecond after that.
C30_Witness ==
    \E c, d, e \in DOMAIN calls :
        /\ calls[c].pc = "done" /\ calls[c].op = "getZoneStatus"
        /\ calls[c].storedAt = 0
        /\ calls[d].pc = "done" /\ calls[d].op = "getZoneStatus"
        /\ calls[d].hit /\ calls[d].age = 60 * 60 * 1000
        /\ calls[e].pc = "fetching" /\ calls[e].op = "getZoneStatus"
        /\ now = 60 * 60 * 1000 + 1
        /\ cache = <<>>

\* Call c ends in this step with the result of a failure: getHolidays with []
\* after fetchWithRetry threw, getZoneStatus with null.
EndsFailed(c) ==
    /\ calls[c].pc = "fetching"
    /\ calls'[c].pc = "done"
    /\ \/ calls'[c].op = "getHolidays" /\ calls'[c].fetched.kind = "thrown"
       \/ calls'[c].op = "getZoneStatus" /\ calls'[c].result = NULL

\* C27: only successful results are cached: a call of getHolidays that
\* returns [] because the upstream failed and a call of getZoneStatus that
\* returns null write nothing to the cache, so a later call for the key is
\* served from the cache only with what a successful call has written, and
\* otherwise sends a request upstream again.
C27_FailuresNotCached ==
    [][\A c \in DOMAIN calls :
         /\ EndsFailed(c) => cache' = cache /\ calls'[c].storedAt = -1
         /\ Invoked(c) =>
               IF \E d \in DOMAIN calls :
                     /\ calls[d].pc = "done" /\ calls[d].storedAt >= 0
                     /\ calls[d].fetched.kind = "ok"
                     /\ KeyOf(calls[d]) = KeyOf(calls'[c])
                     /\ now - calls[d].storedAt <= ClaimedTtl(calls[d])
               THEN calls'[c].hit
               ELSE ~calls'[c].hit /\ calls'[c].attempts = 1
      ]_vars

\* getZoneStatus("Mars/Phobos") returned null after three failed attempts and
\* the next call for the zone has sent a request to the live service.
C27_Witness ==
    /\ calls[1].pc = "done" /\ calls[1].op = "getZoneStatus"
    /\ calls[1].result = NULL /\ calls[1].attempts = 3
    /\ calls[2].pc = "fetching" /\ calls[2].op = "getZoneStatus"
    /\ calls[2].arg = calls[1].arg
    /\ ~calls[2].hit /\ calls[2].attempts = 1
    /\ cache = <<>>

\* The reply of the live time service call c got lacks the timezone or the
\* utc_offset.
MalformedReply(c) ==
    /\ calls[c].fetched.kind = "ok"
    /\ \/ Field(calls[c].fetched.body, "timezone") = UNDEFINED
       \/ Field(calls[c].fetched.body, "utc_offset") = UNDEFINED

\* C29: on a malformed response of the live time service, a success status
\* whose body lacks the utc_offset or the timezone, getZoneStatus falls back to
\* the local computation and neither returns nor caches a status built from
\* the malformed reply.
C29_MalformedFallsBack ==
    /\ \A c \in DoneCalls("getZoneStatus") :
          MalformedReply(c) =>
             calls[c].result =
                IF KnownZone(calls[c].arg)
                THEN MkZoneStatus(calls[c].arg,
                                  ReplaceGMT(LongOffsetName(calls[c].arg)), FALSE)
                ELSE NULL
    /\ \A status \in CachedStatuses :
          status.zone # UNDEFINED /\ status.utc_offset # UNDEFINED

(***************************************************************************)
(* Termination of compareCountries, checked under SpecLive.                *)
(***************************************************************************)
\* C28: when every request eventually succeeds or fails, every call of
\* compareCountries eventually returns, and it makes one lookup for each of
\* the two countries' holidays and one for each zone of the two countries,
\* each of at most 3 requests.
C28_Terminates ==
    /\ (cmp.pc = "holidays") ~> (cmp.pc = "returned")
    /\ [](/\ \A c \in DOMAIN calls : calls[c].attempts <= maxRetries + 1
          /\ cmp.pc = "holidays" => Len(calls) = 2
          /\ cmp.pc \in {"zones", "returned"} =>
                Len(calls) = 2 + Len(getTimezones(cmp.countryA))
                               + Len(getTimezones(cmp.countryB)))

\* compare("CI", "CI", y) has returned after every one of its four lookups
\* sent three requests.
C28_Witness ==
    /\ cmp.pc = "returned"
    /\ cmp.countryA = "CI" /\ cmp.countryB = "CI"
    /\ Len(calls) = 4
    /\ \A c \in DOMAIN calls : calls[c].attempts = maxRetries + 1 /\ Len(calls[c].log) = 3

(***************************************************************************)
(* The zone names of the statuses, checked under SpecEngine.               *)
(***************************************************************************)
\* The zones named in a list of statuses are zones of the country's row, each
\* named once.
ZonesOfRow(statuses, countryCode) ==
    /\ \A k \in 1..Len(statuses) : statuses[k].zone \in Range(getTimezones(countryCode))
    /\ \A j, k \in 1..Len(statuses) : statuses[j].zone = statuses[k].zone => j = k

\* C31: whenever getZoneStatus(z) returns a status, from the cache, the live
\* path or the fallback path, the zone of the status is z; hence the zones
\* named in timezones.A, timezones.B, zonesA and zonesB of a comparison are
\* zones of the country's row of the table, none of them named twice for one
\* country.
C31_ZoneIsRequested ==
    /\ \A c \in DoneCalls("getZoneStatus") :
          calls[c].result # NULL => calls[c].result.zone = calls[c].arg
    /\ cmp.pc = "returned" =>
          LET tz == cmp.result.timezones
          IN  /\ ZonesOfRow(tz.A, cmp.countryA)
              /\ ZonesOfRow(tz.B, cmp.countryB)
              /\ \A k \in 1..Len(tz.commonOffsetNow.overlaps) :
                    LET o == tz.commonOffsetNow.overlaps[k]
                    IN  /\ Range(o.zonesA) \subseteq Range(getTimezones(cmp.countryA))
                        /\ Range(o.zonesB) \subseteq Range(getTimezones(cmp.countryB))

\* The getZoneStatus calls of a returned comparison for the zones of A and of
\* B that returned a status, the ones built from a reply without its fields
\* left aside.
ResolvedZoneCalls(first, last) ==
    {c \in first..last : calls[c].result # NULL /\ ~MalformedReply(c)}

\* C32: two zones whose offset now is the same are grouped under the same
\* offset key whichever path resolved each of them: a zone of A resolved by
\* the live service and a zone of B resolved by the local fallback, with the
\* same offset, offset zero included, make an overlap entry naming both.
C32_SameOffsetSameKey ==
    cmp.pc = "returned" =>
       LET nA       == Len(getTimezones(cmp.countryA))
           overlaps == cmp.result.timezones.commonOffsetNow.overlaps
       IN  \A c \in ResolvedZoneCalls(3, 2 + nA) :
           \A d \in ResolvedZoneCalls(3 + nA, Len(calls)) :
              LongOffsetName(calls[c].arg) = LongOffsetName(calls[d].arg) =>
                 \E k \in 1..Len(overlaps) :
                    /\ calls[c].arg \in Range(overlaps[k].zonesA)
                    /\ calls[d].arg \in Range(overlaps[k].zonesB)

(***************************************************************************)
(* The year on display in the Home page, checked under SpecHome.           *)
(***************************************************************************)
\* C33: whenever a comparison result is displayed, the year used to lay out
\* the annual calendars and shown in the heading is the year of the result's
\* inputs, for every sequence of selector changes and Compare clicks.
C33_DisplayedYearIsResultYear ==
    home.result # NULL =>
       /\ Displayed(home).heading = Displayed(home).inputs.year
       /\ Displayed(home).calendar = Displayed(home).inputs.year

====
